---- MODULE Spec2Model ----
(***************************************************************************)
(* Breakthrough game engine (src/breakthrough/engine.py): Board, Move and  *)
(* Game.  The board is the 8x8 grid of optional pieces, a piece being      *)
(* identified with its owner.  Game.make_move and Game.get_legal_moves are *)
(* the operations; the record last_call keeps the argument and the         *)
(* returned value of the most recent call.                                 *)
(*                                                                         *)
(* Further down: the move notation, Python objects and their copies (the   *)
(* heap with the references game1 and game2), and the tournament harness   *)
(* (src/breakthrough/tournament.py) with its agents                        *)
(* (src/breakthrough/llm_players.py).                                      *)
(***************************************************************************)
EXTENDS Integers, Sequences, FiniteSets, TLC

VARIABLES board, current_player, move_history, winner, game_over, last_call

\* Objects and the references a caller holds to them.
VARIABLES heap, game1, game2

\* Activations of _play_game that run side by side, each with its own locals.
VARIABLES workers

\* Tournament: its fields (player1, player2, num_games, results), the locals
\* of run() and _play_game() and the position pc in them.
VARIABLES player1, player2, num_games, results, pc, game_num, picks, moves,
          move_count, board_history, total_duration, stats

game == <<board, current_player, move_history, winner, game_over>>
objects == <<heap, game1, game2, workers>>
tournament == <<player1, player2, num_games, results, pc, game_num, picks, moves,
                move_count, board_history, total_duration, stats>>
vars == <<board, current_player, move_history, winner, game_over, last_call,
          objects, tournament>>

----------------------------------------------------------------------------
(* Player, Piece, Move *)

WHITE == "WHITE"
BLACK == "BLACK"
Player == {WHITE, BLACK}
None == "None"

\* Piece(player): pieces compare equal by owner, so a piece is its owner.
Piece(player) == player

\* Move(from_pos, to_pos, is_capture)
Move(from_pos, to_pos, is_capture) ==
    [from_pos |-> from_pos, to_pos |-> to_pos, is_capture |-> is_capture]

\* Move.__eq__: structural on (from_pos, to_pos); is_capture is not compared.
MoveEq(a, b) == a.from_pos = b.from_pos /\ a.to_pos = b.to_pos

Range(seq) == {seq[i] : i \in 1..Len(seq)}

\* `move in legal_moves` for a Python list: some element compares equal.
MoveIn(m, legal_moves) == \E i \in 1..Len(legal_moves) : MoveEq(m, legal_moves[i])

----------------------------------------------------------------------------
(* Board *)

BOARD_SIZE == 8

Rows == 0..(BOARD_SIZE - 1)
Cols == 0..(BOARD_SIZE - 1)
Squares == Rows \X Cols

\* Board._is_valid_position
is_valid_position(row, col) ==
    0 <= row /\ row < BOARD_SIZE /\ 0 <= col /\ col < BOARD_SIZE

\* The grid is a list of rows, each a list of squares: self.grid[row][col] is
\* b[row + 1][col + 1] (Python indexes from 0, a TLA+ sequence from 1).
\* Board.get_piece
get_piece(b, row, col) ==
    IF ~is_valid_position(row, col) THEN None ELSE b[row + 1][col + 1]

\* Board.set_piece without the position check: Python indexes a list from its
\* end with a negative index.
set_piece_unchecked(b, row, col, piece) ==
    [b EXCEPT ![(row % BOARD_SIZE) + 1][(col % BOARD_SIZE) + 1] = piece]

\* Board.set_piece
set_piece(b, row, col, piece) ==
    IF is_valid_position(row, col)
    THEN [b EXCEPT ![row + 1][col + 1] = piece]
    ELSE b

\* Board.__init__: the empty grid, before _init_board fills it.
EmptyGrid == [r \in 1..BOARD_SIZE |-> [c \in 1..BOARD_SIZE |-> None]]

\* The two sides' home rows exchanged.
InitCellSwapped(row, col) ==
    IF row \in {6, 7} THEN Piece(BLACK)
    ELSE IF row \in {0, 1} THEN Piece(WHITE)
    ELSE None
init_board_swapped ==
    [r \in 1..BOARD_SIZE |-> [c \in 1..BOARD_SIZE |-> InitCellSwapped(r - 1, c - 1)]]

\* Board._init_board: WHITE on rows 6-7, BLACK on rows 0-1.
InitCell(row, col) ==
    IF row \in {6, 7} THEN Piece(WHITE)
    ELSE IF row \in {0, 1} THEN Piece(BLACK)
    ELSE None
init_board ==
    [r \in 1..BOARD_SIZE |-> [c \in 1..BOARD_SIZE |-> InitCell(r - 1, c - 1)]]

----------------------------------------------------------------------------
(* Game: move generation *)

\* A move of two rows at a time.
forward_row_two_rows(piece, row) == IF piece = WHITE THEN row - 2 ELSE row + 2

\* _get_piece_moves, "Determine direction based on player".
forward_row(piece, row) == IF piece = WHITE THEN row - 1 ELSE row + 1

\* _get_piece_moves, "Check forward move (non-capture)": the moves it appends.
forward_move(b, row, col) ==
    LET fr == forward_row(get_piece(b, row, col), row)
    IN IF 0 <= fr /\ fr < BOARD_SIZE /\ get_piece(b, fr, col) = None
       THEN <<Move(<<row, col>>, <<fr, col>>, FALSE)>>
       ELSE <<>>

\* A capture generated for any diagonal square not holding an own piece, the
\* test for an empty target left out.
capture_move_onto_empty(b, row, col, col_offset) ==
    LET piece == get_piece(b, row, col)
        fr == forward_row(piece, row)
        capture_col == col + col_offset
    IN IF 0 <= fr /\ fr < BOARD_SIZE /\ 0 <= capture_col /\ capture_col < BOARD_SIZE
          /\ get_piece(b, fr, capture_col) # piece
       THEN <<Move(<<row, col>>, <<fr, capture_col>>, TRUE)>>
       ELSE <<>>

\* _get_piece_moves, "Check diagonal captures", one pass of the loop over
\* col_offset: the moves it appends.
capture_move(b, row, col, col_offset) ==
    LET piece == get_piece(b, row, col)
        fr == forward_row(piece, row)
        capture_col == col + col_offset
        target_piece == get_piece(b, fr, capture_col)
    IN IF 0 <= fr /\ fr < BOARD_SIZE /\ 0 <= capture_col /\ capture_col < BOARD_SIZE
          /\ target_piece # None /\ target_piece # piece
       THEN <<Move(<<row, col>>, <<fr, capture_col>>, TRUE)>>
       ELSE <<>>

\* The capture loop run over [1, -1] instead of [-1, 1].
get_piece_moves_right_first(b, row, col) ==
    IF get_piece(b, row, col) = None THEN <<>>
    ELSE forward_move(b, row, col)
         \o capture_move(b, row, col, 1) \o capture_move(b, row, col, -1)

\* Game._get_piece_moves: the forward move, then the captures to col-1, col+1.
get_piece_moves(b, row, col) ==
    IF get_piece(b, row, col) = None THEN <<>>
    ELSE forward_move(b, row, col)
         \o capture_move(b, row, col, -1) \o capture_move(b, row, col, 1)

\* Game.get_legal_moves on a game with the given board and side to move: the
\* row-major double loop, rest[k] being the moves collected from square number
\* k = row * BOARD_SIZE + col onwards.
get_legal_moves(b, player) ==
    LET rest[k \in 0..(BOARD_SIZE * BOARD_SIZE)] ==
            IF k = BOARD_SIZE * BOARD_SIZE THEN <<>>
            ELSE LET row == k \div BOARD_SIZE
                     col == k % BOARD_SIZE
                     piece == get_piece(b, row, col)
                 IN IF piece = None \/ piece # player
                    THEN rest[k + 1]
                    ELSE get_piece_moves(b, row, col) \o rest[k + 1]
    IN rest[0]

\* Legality decided without regard to whose turn it is.
is_legal_move_any_side(b, player, move) ==
    \/ MoveIn(move, get_legal_moves(b, WHITE))
    \/ MoveIn(move, get_legal_moves(b, BLACK))

\* Game._is_legal_move
is_legal_move(b, player, move) == MoveIn(move, get_legal_moves(b, player))

\* Only WHITE wins by arriving.
check_win_white_only(piece, position) == piece = WHITE /\ position[1] = 0

\* Row 0 taken as the winning row of both sides.
check_win_row_zero(piece, position) == position[1] = 0

\* Game._check_win
check_win(piece, position) ==
    IF piece = WHITE THEN position[1] = 0 ELSE position[1] = 7

----------------------------------------------------------------------------
(* Game: make_move, on a game record g *)

Game(b, player, history, w, over) ==
    [board |-> b, current_player |-> player, move_history |-> history,
     winner |-> w, game_over |-> over]

\* Game.__init__
NewGame == Game(init_board, WHITE, <<>>, None, FALSE)

\* The move executed without clearing the square it starts from.
execute_move_keep_source(g, move) ==
    LET piece == get_piece(g.board, move.from_pos[1], move.from_pos[2])
        placed == set_piece(g.board, move.to_pos[1], move.to_pos[2], piece)
    IN [g EXCEPT !.board = placed, !.move_history = Append(@, move)]

\* A capture that puts the captured piece on the square the mover left.
execute_move_exchanging(g, move) ==
    LET piece == get_piece(g.board, move.from_pos[1], move.from_pos[2])
        taken == get_piece(g.board, move.to_pos[1], move.to_pos[2])
        cleared == set_piece(g.board, move.from_pos[1], move.from_pos[2], taken)
        placed == set_piece(cleared, move.to_pos[1], move.to_pos[2], piece)
    IN [g EXCEPT !.board = placed, !.move_history = Append(@, move)]

\* make_move, "Execute the move" and "Add to history": the piece on from_pos is
\* put on to_pos, from_pos is cleared, the caller's move object is appended.
execute_move(g, move) ==
    LET piece == get_piece(g.board, move.from_pos[1], move.from_pos[2])
        cleared == set_piece(g.board, move.from_pos[1], move.from_pos[2], None)
        placed == set_piece(cleared, move.to_pos[1], move.to_pos[2], piece)
    IN [g EXCEPT !.board = placed, !.move_history = Append(@, move)]

\* The win given to the side that did not move.
record_win_for_opponent(g, piece, move) ==
    IF check_win(piece, move.to_pos)
    THEN [g EXCEPT !.winner = IF piece = WHITE THEN BLACK ELSE WHITE,
                   !.game_over = TRUE]
    ELSE g

\* make_move, "Check for win": piece is the piece that was moved.
record_win(g, piece, move) ==
    IF check_win(piece, move.to_pos)
    THEN [g EXCEPT !.winner = piece, !.game_over = TRUE]
    ELSE g

\* The side to move set to BLACK whoever moved.
switch_player_to_black(g) == [g EXCEPT !.current_player = BLACK]

\* The side to move flipped only while the game is not over.
switch_player_unless_over(g) ==
    IF g.game_over THEN g
    ELSE [g EXCEPT !.current_player = IF @ = WHITE THEN BLACK ELSE WHITE]

\* make_move, "Switch player": unconditional.
switch_player(g) ==
    [g EXCEPT !.current_player = IF @ = WHITE THEN BLACK ELSE WHITE]

\* make_move, "Check for draw (no legal moves) only if the game isn't already over".
check_draw(g) ==
    IF ~g.game_over /\ get_legal_moves(g.board, g.current_player) = <<>>
    THEN [g EXCEPT !.game_over = TRUE, !.winner = None]
    ELSE g

\* Game.make_move: the game after the call and the value returned.
make_move(g, move) ==
    IF ~is_legal_move(g.board, g.current_player, move)
    THEN [game |-> g, ret |-> FALSE]
    ELSE LET piece == get_piece(g.board, move.from_pos[1], move.from_pos[2])
         IN [game |-> check_draw(switch_player(record_win(execute_move(g, move),
                                                           piece, move))),
             ret |-> TRUE]

----------------------------------------------------------------------------
(* The state machine *)

Self == Game(board, current_player, move_history, winner, game_over)

SetGame(g) ==
    /\ board' = g.board
    /\ current_player' = g.current_player
    /\ move_history' = g.move_history
    /\ winner' = g.winner
    /\ game_over' = g.game_over

\* last_call before any call has been made.
NoCall == [op |-> "none"]

\* The reference that refers to no object (references count from 1).
null == 0

\* No object besides the game has been built, and no Tournament.
NoObjects == heap = <<>> /\ game1 = null /\ game2 = null /\ workers = <<>>
NoTournament ==
    /\ player1 = None /\ player2 = None /\ num_games = 0 /\ results = <<>>
    /\ pc = "none" /\ game_num = 0 /\ picks = None /\ moves = <<>>
    /\ move_count = 0 /\ board_history = <<>> /\ total_duration = 0
    /\ stats = None

MaxPlies == 3

\* Boards set up the way TestWinCondition does it: every square is cleared
\* with set_piece(row, col, None), then pieces are placed with set_piece; here
\* at most one piece a side, on the three rows next to either back rank, files
\* d and e.  The tests' lone WHITE piece on (1,4) and lone BLACK piece on (6,4)
\* are among them.
SetupRows == {0, 1, 2, 5, 6, 7}
SetupCols == {3, 4}
SetupSquares == SetupRows \X SetupCols

Cleared == EmptyGrid
Place(b, s, player) == set_piece(b, s[1], s[2], Piece(player))
SetupBoards ==
    LET white == {Cleared} \cup {Place(Cleared, s, WHITE) : s \in SetupSquares}
    IN white \cup {Place(b, s, BLACK) : b \in white, s \in SetupSquares}

\* TestGame.test_capture_moves: a new board with a WHITE piece put on (5,4),
\* BLACK pieces on (4,3) and (4,5), and (6,4), (6,3), (6,5) cleared.
CaptureTestBoard ==
    LET b1 == set_piece(init_board, 5, 4, Piece(WHITE))
        b2 == set_piece(b1, 4, 3, Piece(BLACK))
        b3 == set_piece(b2, 4, 5, Piece(BLACK))
        b4 == set_piece(b3, 6, 4, None)
        b5 == set_piece(b4, 6, 3, None)
    IN set_piece(b5, 6, 5, None)

\* Game() followed by the tests' set-up: the board is replaced through
\* set_piece and current_player is assigned; the other fields are as built.
Init ==
    /\ \/ board = init_board /\ current_player = WHITE
       \/ board = CaptureTestBoard /\ current_player = WHITE
       \/ board \in SetupBoards /\ current_player \in Player
    /\ move_history = <<>>
    /\ winner = None
    /\ game_over = FALSE
    /\ last_call = NoCall
    /\ NoObjects
    /\ NoTournament

\* The moves a caller passes to make_move: Move(from_pos, to_pos) with the
\* default is_capture, from a square of files d-f that holds a piece or from a
\* probe square (one inside the board, one above it, one to its right), to the
\* square itself or one of its eight neighbours; or a Move object taken from
\* get_legal_moves(), as RandomPlayer.get_move does.
InputCols == {3, 4, 5}
ProbeSquares == {<<4, 4>>, <<-1, 4>>, <<4, 8>>}
Deltas == {-1, 0, 1} \X {-1, 0, 1}
FromSquares ==
    {s \in Rows \X InputCols : get_piece(board, s[1], s[2]) # None} \cup ProbeSquares
MoveInputs ==
    {Move(f, <<f[1] + d[1], f[2] + d[2]>>, FALSE) : f \in FromSquares, d \in Deltas}
    \cup {m \in Range(get_legal_moves(board, current_player)) :
            m.from_pos[2] \in InputCols}

\* Tournament._play_game abandons the game at the first move make_move rejects
\* ("if not game.make_move(move): ... break"); no call follows a rejected one.
Abandoned == last_call.op = "make_move" /\ ~last_call.ret

MakeMove(move) ==
    \E r \in {make_move(Self, move)} :
       /\ SetGame(r.game)
       /\ last_call' = [op |-> "make_move", move |-> move, ret |-> r.ret]

CallMakeMove ==
    /\ ~Abandoned
    /\ Len(move_history) < MaxPlies
    /\ \E move \in MoveInputs : MakeMove(move)
    /\ UNCHANGED <<objects, tournament>>

CallGetLegalMoves ==
    /\ ~Abandoned
    /\ last_call' = [op |-> "get_legal_moves",
                     ret |-> get_legal_moves(board, current_player)]
    /\ UNCHANGED <<game, objects, tournament>>

Next ==
    \/ CallMakeMove
    \/ CallGetLegalMoves

Spec == Init /\ [][Next]_vars

\* Move generation on its own: get_legal_moves() called on a new game, on the
\* board of test_capture_moves and on every board that is empty outside one of
\* two corner blocks (top left, bottom right) and filled in any way inside it,
\* with either side to move.
CornerBlocks == {{0, 1} \X {0, 1, 2}, {6, 7} \X {5, 6, 7}}
BlockBoards ==
    UNION {{[r \in 1..BOARD_SIZE |-> [c \in 1..BOARD_SIZE |->
                IF <<r - 1, c - 1>> \in block THEN f[<<r - 1, c - 1>>] ELSE None]] :
             f \in [block -> {None, WHITE, BLACK}]} : block \in CornerBlocks}

InitMoves ==
    /\ board \in BlockBoards \cup {init_board, CaptureTestBoard}
    /\ current_player \in Player
    /\ move_history = <<>>
    /\ winner = None
    /\ game_over = FALSE
    /\ last_call = NoCall
    /\ NoObjects
    /\ NoTournament

SpecMoves == InitMoves /\ [][CallGetLegalMoves]_vars

\* A game that starts with WHITE to move, as every Game() does.
InitWhite == Init /\ current_player = WHITE

SpecWhite == InitWhite /\ [][Next]_vars

----------------------------------------------------------------------------
(* Vocabulary of the properties *)

Opponent(player) == IF player = WHITE THEN BLACK ELSE WHITE

\* The step is a call make_move(last_call'.move).
MakeMoveStep == last_call'.op = "make_move"
Accepted == MakeMoveStep /\ last_call'.ret
Rejected == MakeMoveStep /\ ~last_call'.ret

\* The piece on the square the call's move starts from, before the call.
Mover == get_piece(board, last_call'.move.from_pos[1], last_call'.move.from_pos[2])

\* The call's move ends on the mover's opponent's back rank.
BackRankArrival ==
    \/ Mover = WHITE /\ last_call'.move.to_pos[1] = 0
    \/ Mover = BLACK /\ last_call'.move.to_pos[1] = BOARD_SIZE - 1

\* The last call was make_move and it returned ret.
Returned(ret) == last_call.op = "make_move" /\ last_call.ret = ret

PieceCount(b, player) ==
    Cardinality({s \in Squares : get_piece(b, s[1], s[2]) = player})

----------------------------------------------------------------------------
(* C1 *)

\* C1: make_move fails closed.  A call make_move(m) with m not a member of
\* get_legal_moves() returns False and leaves board, current_player,
\* move_history, game_over and winner as they were.
C1_FailsClosed ==
    [][(MakeMoveStep
        /\ ~MoveIn(last_call'.move, get_legal_moves(board, current_player)))
       => (last_call'.ret = FALSE /\ UNCHANGED game)]_vars

\* TestGame.test_make_invalid_move: in a new game, WHITE to move, the BLACK
\* piece's move (1,4)->(2,4) has been rejected.
C1_Witness ==
    /\ Returned(FALSE)
    /\ last_call.move = Move(<<1, 4>>, <<2, 4>>, FALSE)
    /\ board = init_board /\ current_player = WHITE /\ move_history = <<>>

----------------------------------------------------------------------------
(* C2 *)

\* C2: the terminal state is sticky.  Once game_over is True every call
\* make_move(m) returns False and changes nothing.
C2_TerminalSticky ==
    [][(game_over /\ MakeMoveStep) => (last_call'.ret = FALSE /\ UNCHANGED game)]_vars

----------------------------------------------------------------------------
(* C3 *)

\* C3: a successful make_move whose destination is the opponent's back rank
\* (row 0 for a WHITE mover, row 7 for a BLACK mover) sets game_over and makes
\* the mover the winner, whatever legal moves remain.
C3_BackRankWins ==
    [][(Accepted /\ BackRankArrival) => (game_over' /\ winner' = Mover)]_vars

\* TestWinCondition.test_white_wins_at_row_zero: the lone WHITE piece has moved
\* (1,4)->(0,4); the game is over and WHITE has won.
C3_Witness ==
    /\ Returned(TRUE)
    /\ last_call.move = Move(<<1, 4>>, <<0, 4>>, FALSE)
    /\ board = Place(Cleared, <<0, 4>>, WHITE)
    /\ game_over /\ winner = WHITE

----------------------------------------------------------------------------
(* C4 *)

\* C4: after a successful make_move that is not a back-rank win, if the new
\* side to move has no legal move the game is over with winner None (a draw).
C4_StalemateIsDraw ==
    [][(Accepted /\ ~BackRankArrival
        /\ get_legal_moves(board', current_player') = <<>>)
       => (game_over' /\ winner' = None)]_vars

----------------------------------------------------------------------------
(* C5 *)

\* C5: after every successful make_move that does not end the game the side to
\* move is the opposite of the side that moved; every successful call adds one
\* entry to move_history and no other call adds any, so that in a game started
\* by WHITE and still in progress, WHITE is to move iff the number of moves
\* made is even.
C5_Alternation ==
    /\ [](~game_over => (current_player = WHITE <=> Len(move_history) % 2 = 0))
    /\ [][/\ (Accepted /\ ~game_over') =>
                (Mover = current_player /\ current_player' = Opponent(Mover))
          /\ Accepted => Len(move_history') = Len(move_history) + 1
          /\ ~Accepted => Len(move_history') = Len(move_history)]_vars

\* TestGameFlow.test_simple_game_sequence: after (6,4)->(5,4) and (1,4)->(2,4)
\* in a new game, two moves are recorded, WHITE is to move, the game is on.
C5_Witness ==
    /\ Returned(TRUE)
    /\ move_history = <<Move(<<6, 4>>, <<5, 4>>, FALSE), Move(<<1, 4>>, <<2, 4>>, FALSE)>>
    /\ current_player = WHITE
    /\ ~game_over

----------------------------------------------------------------------------
(* C6 *)

\* C6: when a successful make_move ends the game by a back-rank win the side to
\* move does not flip: current_player is still the side that made the move.
C6_NoFlipOnWin ==
    [][(Accepted /\ BackRankArrival) => current_player' = current_player]_vars

\* C6, amended: the flip is unconditional; after a successful make_move that
\* ends the game by a back-rank win, current_player is the opponent of the side
\* that made the winning move.
C6_FlipOnWin ==
    [][(Accepted /\ BackRankArrival) =>
         (Mover = current_player /\ current_player' = Opponent(current_player))]_vars

\* TestWinCondition.test_black_wins_at_row_seven: the lone BLACK piece has
\* moved (6,4)->(7,4) and won; WHITE is the side to move.
C6_Witness ==
    /\ Returned(TRUE)
    /\ last_call.move = Move(<<6, 4>>, <<7, 4>>, FALSE)
    /\ board = Place(Cleared, <<7, 4>>, BLACK)
    /\ game_over /\ winner = BLACK
    /\ current_player = WHITE

----------------------------------------------------------------------------
(* C7 *)

\* The moves the rules give the side to move: from each of its pieces, the
\* square straight ahead if on the board and empty (no capture), and each
\* diagonally-forward square if on the board and held by the opponent (capture).
RuleMoves(b, player) ==
    LET ahead(row) == IF player = WHITE THEN row - 1 ELSE row + 1
        own == {s \in Squares : b[s[1] + 1][s[2] + 1] = player}
        straight == {Move(s, <<ahead(s[1]), s[2]>>, FALSE) : s \in
                       {s \in own : /\ <<ahead(s[1]), s[2]>> \in Squares
                                    /\ b[ahead(s[1]) + 1][s[2] + 1] = None}}
        diagonal(dc) == {Move(s, <<ahead(s[1]), s[2] + dc>>, TRUE) : s \in
                           {s \in own : /\ <<ahead(s[1]), s[2] + dc>> \in Squares
                                        /\ b[ahead(s[1]) + 1][s[2] + dc + 1]
                                             = Opponent(player)}}
    IN straight \cup diagonal(-1) \cup diagonal(1)

\* C7: get_legal_moves() returns exactly the moves of the rules, each once and
\* with its capture flag, and no other move.
C7_LegalMovesAreTheRules ==
    last_call.op = "get_legal_moves" =>
        /\ Range(last_call.ret) = RuleMoves(board, current_player)
        /\ Len(last_call.ret) = Cardinality(RuleMoves(board, current_player))

\* get_legal_moves() has been called on the board of TestGame.test_capture_moves
\* and returned, among others, the forward move and both captures of (5,4).
C7_Witness ==
    /\ last_call.op = "get_legal_moves"
    /\ board = CaptureTestBoard /\ current_player = WHITE
    /\ {Move(<<5, 4>>, <<4, 4>>, FALSE), Move(<<5, 4>>, <<4, 3>>, TRUE),
        Move(<<5, 4>>, <<4, 5>>, TRUE)} \subseteq Range(last_call.ret)

----------------------------------------------------------------------------
(* C8 *)

\* The state Game() builds.
IsNewGame ==
    /\ board = init_board /\ current_player = WHITE /\ move_history = <<>>
    /\ winner = None /\ ~game_over

\* C8: a new game has rows 0-1 full of BLACK, rows 6-7 full of WHITE and rows
\* 2-5 empty, and get_legal_moves() returns exactly 8 moves there, each a
\* non-capture from row 6 to row 5 in its own column.
C8_OpeningMoves ==
    IsNewGame =>
        /\ \A s \in Squares :
             get_piece(board, s[1], s[2]) =
                IF s[1] <= 1 THEN BLACK ELSE IF s[1] >= 6 THEN WHITE ELSE None
        /\ last_call.op = "get_legal_moves" =>
             /\ Len(last_call.ret) = 8
             /\ \A i \in 1..Len(last_call.ret) :
                  LET m == last_call.ret[i]
                  IN /\ ~m.is_capture
                     /\ m.from_pos[1] = 6 /\ m.to_pos[1] = 5
                     /\ m.from_pos[2] = m.to_pos[2]

\* TestGame.test_get_legal_moves_starting_position: get_legal_moves() has been
\* called on a new game.
C8_Witness == IsNewGame /\ last_call.op = "get_legal_moves" /\ Len(last_call.ret) = 8

----------------------------------------------------------------------------
(* C9 *)

\* Place of a move in the scan: its square in row-major order, then forward
\* move (0), capture to col-1 (1), capture to col+1 (2).
ScanKey(m) ==
    (m.from_pos[1] * BOARD_SIZE + m.from_pos[2]) * 3
    + (IF m.to_pos[2] = m.from_pos[2] THEN 0
       ELSE IF m.to_pos[2] = m.from_pos[2] - 1 THEN 1 ELSE 2)

\* C9: get_legal_moves() returns the moves in scan order (squares row-major,
\* per square forward, then capture to col-1, then capture to col+1); a second
\* call on the same state returns the same sequence; the call changes nothing
\* of the game.
C9_ScanOrder ==
    /\ [](last_call.op = "get_legal_moves" =>
            /\ \A i, j \in 1..Len(last_call.ret) :
                 i < j => ScanKey(last_call.ret[i]) < ScanKey(last_call.ret[j])
            /\ get_legal_moves(board, current_player) = last_call.ret)
    /\ [][last_call'.op = "get_legal_moves" => UNCHANGED game]_vars

\* On the board of TestGame.test_capture_moves the piece on (5,4) got its
\* forward move, its capture to the left and its capture to the right, in
\* that order, ahead of the moves of the pieces on rows 6 and 7.
C9_Witness ==
    /\ last_call.op = "get_legal_moves"
    /\ board = CaptureTestBoard /\ current_player = WHITE
    /\ SubSeq(last_call.ret, 1, 3) =
         <<Move(<<5, 4>>, <<4, 4>>, FALSE), Move(<<5, 4>>, <<4, 3>>, TRUE),
           Move(<<5, 4>>, <<4, 5>>, TRUE)>>
    /\ Len(last_call.ret) > 3

----------------------------------------------------------------------------
(* C10 *)

\* C10: on a successful make_move(m) the piece that was on m.from_pos is on
\* m.to_pos, m.from_pos is empty, whatever stood on m.to_pos is gone, every
\* other square is as it was, and move_history is the old one with m appended.
C10_MoveEffect ==
    [][Accepted =>
         LET m == last_call'.move
         IN /\ \A s \in Squares :
                 get_piece(board', s[1], s[2]) =
                    IF s = m.to_pos THEN Mover
                    ELSE IF s = m.from_pos THEN None
                    ELSE get_piece(board, s[1], s[2])
            /\ Mover # None
            /\ move_history' = Append(move_history, m)]_vars

\* On the board of TestGame.test_capture_moves WHITE has captured (5,4)x(4,3):
\* a WHITE piece stands where the BLACK one was, (5,4) is empty, BLACK has one
\* piece less and the move is the history.
C10_Witness ==
    /\ Returned(TRUE)
    /\ last_call.move = Move(<<5, 4>>, <<4, 3>>, FALSE)
    /\ board = set_piece(set_piece(CaptureTestBoard, 5, 4, None), 4, 3, Piece(WHITE))
    /\ PieceCount(board, BLACK) = PieceCount(CaptureTestBoard, BLACK) - 1
    /\ move_history = <<last_call.move>>

----------------------------------------------------------------------------
(* Move notation: Move.to_notation and Move.from_notation.  A Python str is  *)
(* the tuple of its characters, each a one-character string.                 *)

\* The characters of the texts, by code point: the space (32), the minus sign
\* (45), the digits (48..57), the capitals (65..90), the small letters (97..122).
Digit == <<"0", "1", "2", "3", "4", "5", "6", "7", "8", "9">>
Upper == <<"A", "B", "C", "D", "E", "F", "G", "H", "I", "J", "K", "L", "M",
           "N", "O", "P", "Q", "R", "S", "T", "U", "V", "W", "X", "Y", "Z">>
Lower == <<"a", "b", "c", "d", "e", "f", "g", "h", "i", "j", "k", "l", "m",
           "n", "o", "p", "q", "r", "s", "t", "u", "v", "w", "x", "y", "z">>
IndexIn(table, c) == CHOOSE i \in 1..Len(table) : table[i] = c

\* ord(c) and chr(n) on those characters.
ord(c) ==
    IF c = " " THEN 32
    ELSE IF c = "-" THEN 45
    ELSE IF c \in Range(Digit) THEN 47 + IndexIn(Digit, c)
    ELSE IF c \in Range(Upper) THEN 64 + IndexIn(Upper, c)
    ELSE 96 + IndexIn(Lower, c)
chr(n) ==
    IF n = 32 THEN " "
    ELSE IF n = 45 THEN "-"
    ELSE IF n < 65 THEN Digit[n - 47]
    ELSE IF n < 97 THEN Upper[n - 64]
    ELSE Lower[n - 96]

\* str(n) of an int: its decimal digits, after a minus sign if negative.
RECURSIVE digits(_)
digits(n) ==
    IF n < 10 THEN <<chr(ord("0") + n)>>
    ELSE digits(n \div 10) \o <<chr(ord("0") + (n % 10))>>
str(n) == IF n < 0 THEN <<"-">> \o digits(-n) ELSE digits(n)

\* A call either returns a value or raises an exception.
Returns(value) == [raised |-> None, value |-> value]
Raises(exception) == [raised |-> exception]

\* int(c) of a one-character str: the digit's value, ValueError otherwise.
int(c) ==
    IF ord("0") <= ord(c) /\ ord(c) <= ord("9")
    THEN Returns(ord(c) - ord("0"))
    ELSE Raises("ValueError")

\* pos_to_notation inside to_notation, with the row written as it is stored.
pos_to_notation_row_as_stored(pos) == <<chr(ord("a") + pos[2])>> \o str(pos[1])

\* pos_to_notation inside to_notation: f"{col}{row}"
pos_to_notation(pos) == <<chr(ord("a") + pos[2])>> \o str(8 - pos[1])

\* The delimiter " to ".
TO == <<" ", "t", "o", " ">>

\* Move.to_notation: f"{from_notation} to {to_notation}"
to_notation(move) ==
    pos_to_notation(move.from_pos) \o TO \o pos_to_notation(move.to_pos)

\* s has sep at index i (counted from 1).
FoundAt(s, sep, i) ==
    i + Len(sep) - 1 <= Len(s) /\ SubSeq(s, i, i + Len(sep) - 1) = sep

\* s.split(sep, 1): s is cut at the leftmost occurrence of sep only.
split_once(s, sep) ==
    LET found == {i \in 1..Len(s) : FoundAt(s, sep, i)}
    IN IF found = {} THEN <<s>>
       ELSE LET i == CHOOSE i \in found : \A j \in found : i <= j
            IN <<SubSeq(s, 1, i - 1), SubSeq(s, i + Len(sep), Len(s))>>

\* s.split(sep): s is cut at every occurrence of sep found scanning from the
\* left, the scan resuming right after each occurrence (occurrences that
\* overlap an earlier one are not seen).  parts[i, start] is the list of parts
\* of s from index start on, the scan being at index i.
split(s, sep) ==
    LET parts[i \in 1..(Len(s) + 1), start \in 1..(Len(s) + 1)] ==
            IF i > Len(s) THEN <<SubSeq(s, start, Len(s))>>
            ELSE IF FoundAt(s, sep, i)
                 THEN <<SubSeq(s, start, i - 1)>>
                         \o parts[i + Len(sep), i + Len(sep)]
                 ELSE parts[i + 1, start]
    IN parts[1, 1]

\* notation_to_pos inside from_notation: n[0] and n[1] raise IndexError past
\* the end of n, int(n[1]) raises ValueError; nothing else of n is read.
notation_to_pos(n) ==
    IF Len(n) < 1 THEN Raises("IndexError")
    ELSE LET col == ord(n[1]) - ord("a")
         IN IF Len(n) < 2 THEN Raises("IndexError")
            ELSE IF int(n[2]).raised # None THEN int(n[2])
            ELSE Returns(<<8 - int(n[2]).value, col>>)

\* Move.from_notation: any exception inside the try block, the ValueError for
\* a wrong number of parts included, is raised again as ValueError; the Move
\* is built with the default is_capture.
from_notation(notation) ==
    LET parts == split(notation, TO)
    IN IF Len(parts) # 2 THEN Raises("ValueError")
       ELSE LET from_pos == notation_to_pos(parts[1])
                to_pos == notation_to_pos(parts[2])
            IN IF from_pos.raised # None \/ to_pos.raised # None
               THEN Raises("ValueError")
               ELSE Returns(Move(from_pos.value, to_pos.value, FALSE))

\* The texts handed to from_notation: two parts around a separator, three
\* parts around two delimiters, and the texts of TestMove.test_invalid_notation.
\* A part is a file letter (inside a..h or next to it), a rank character
\* (inside 1..8, next to it, or no digit) and possibly a trailing character,
\* or one of a few shorter and longer pieces of text.
FileChars == {"a", "e", "h", "i", "A"}
RankChars == {"1", "2", "8", "0", "9", "x"}
Trailing == {<<>>, <<"x">>, <<" ">>}
PartInputs ==
    {<<f, r>> \o t : f \in FileChars, r \in RankChars, t \in Trailing}
    \cup {<<>>, <<"e">>, <<"1", "e">>, <<"t", "o">>}
Separators ==
    {TO, <<" ">>, <<"t", "o">>, <<"t", "o", " ">>, <<" ", "T", "O", " ">>,
     <<" ", "t", "o", " ", "t", "o", " ">>, TO \o TO, <<>>}
ShortParts ==
    {<<"a", "1">>, <<"a", "2">>, <<"a", "3">>, <<"i", "9">>, <<>>, <<"t", "o">>}
NotationInputs ==
    {l \o s \o r : l \in PartInputs, s \in Separators, r \in ShortParts}
    \cup {l \o s \o r : l \in ShortParts, s \in Separators, r \in PartInputs}
    \cup {l \o TO \o m \o TO \o r : l \in ShortParts, m \in ShortParts, r \in ShortParts}
    \cup {<<"i", "n", "v", "a", "l", "i", "d">>, <<"a", "1", " ", "a", "2">>}

\* Every Move on the board, with either capture flag.
BoardMoves == {Move(f, t, c) : f \in Squares, t \in Squares, c \in BOOLEAN}

\* During these calls no game is played: the engine state is that of Game().
InitNotation ==
    /\ board = NewGame.board
    /\ current_player = NewGame.current_player
    /\ move_history = NewGame.move_history
    /\ winner = NewGame.winner
    /\ game_over = NewGame.game_over
    /\ last_call = NoCall
    /\ NoObjects
    /\ NoTournament

\* move.to_notation() on a Move of the board.
CallToNotation ==
    /\ last_call = NoCall
    /\ \E move \in BoardMoves :
          last_call' = [op |-> "to_notation", move |-> move,
                        ret |-> to_notation(move)]
    /\ UNCHANGED <<game, objects, tournament>>

\* Move.from_notation(text) on a text from outside.
CallFromNotation ==
    /\ last_call = NoCall
    /\ \E text \in NotationInputs :
          last_call' = [op |-> "from_notation", text |-> text,
                        ret |-> from_notation(text)]
    /\ UNCHANGED <<game, objects, tournament>>

\* Move.from_notation(notation) on the notation to_notation() just returned,
\* as in TestMove.test_move_notation_conversion.
ParseBack ==
    /\ last_call.op = "to_notation"
    /\ last_call' = [op |-> "from_notation", text |-> last_call.ret,
                     ret |-> from_notation(last_call.ret)]
    /\ UNCHANGED <<game, objects, tournament>>

NextNotation ==
    \/ CallToNotation
    \/ CallFromNotation
    \/ ParseBack

SpecNotation == InitNotation /\ [][NextNotation]_vars


----------------------------------------------------------------------------
(* Claims about the notation *)

\* A text as the tuple of its characters.
E2_TO_E3 == <<"e", "2">> \o TO \o <<"e", "3">>
A8_TO_A7 == <<"a", "8">> \o TO \o <<"a", "7">>
H1_TO_H2 == <<"h", "1">> \o TO \o <<"h", "2">>

\* The notations of all the pairs of squares of the board.
Notations == {to_notation(Move(p[1], p[2], FALSE)) : p \in Squares \X Squares}

\* The number of places of text at which " to " is found.
Delimiters(text) == Cardinality({i \in 1..Len(text) : FoundAt(text, TO, i)})

\* "<file><rank>" with the file in a..h and the rank in 1..8.
SquareText(n) ==
    /\ Len(n) = 2
    /\ n[1] \in {"a", "b", "c", "d", "e", "f", "g", "h"}
    /\ n[2] \in {"1", "2", "3", "4", "5", "6", "7", "8"}

\* "<file><rank> to <file><rank>"
MoveText(text) ==
    /\ Len(text) = 8
    /\ SquareText(SubSeq(text, 1, 2))
    /\ SubSeq(text, 3, 6) = TO
    /\ SquareText(SubSeq(text, 7, 8))

Parsed == last_call.op = "from_notation"

\* C11: for every pair of squares of the board, from_notation applied to the
\* to_notation of the Move returns a Move with the same from_pos and to_pos;
\* (6,4)->(5,4) is written "e2 to e3", (0,0)->(1,0) "a8 to a7" and
\* (7,7)->(6,7) "h1 to h2"; two different pairs of squares never have the
\* same notation.
C11_RoundTrip ==
    /\ [][last_call.op = "to_notation" /\ last_call'.op = "from_notation"
             /\ last_call'.text = last_call.ret
          => /\ last_call'.ret.raised = None
             /\ last_call'.ret.value.from_pos = last_call.move.from_pos
             /\ last_call'.ret.value.to_pos = last_call.move.to_pos]_vars
    /\ [](last_call.op = "to_notation" =>
            LET m == last_call.move
            IN /\ MoveEq(m, Move(<<6, 4>>, <<5, 4>>, FALSE)) => last_call.ret = E2_TO_E3
               /\ MoveEq(m, Move(<<0, 0>>, <<1, 0>>, FALSE)) => last_call.ret = A8_TO_A7
               /\ MoveEq(m, Move(<<7, 7>>, <<6, 7>>, FALSE)) => last_call.ret = H1_TO_H2
               /\ last_call.ret \in Notations)
    /\ [](Cardinality(Notations) = Cardinality(Squares \X Squares))

\* "e2 to e3", the notation of (6,4)->(5,4), has been parsed back into a Move
\* from (6,4) to (5,4).
C11_Witness ==
    /\ Parsed
    /\ last_call.text = E2_TO_E3
    /\ last_call.ret.raised = None
    /\ MoveEq(last_call.ret.value, Move(<<6, 4>>, <<5, 4>>, FALSE))

\* C12: from_notation raises ValueError, and so returns no Move, on every text
\* in which " to " is found nowhere or at more than one place.
C12_DelimiterOnce ==
    Parsed /\ Delimiters(last_call.text) # 1 => last_call.ret.raised = "ValueError"

\* from_notation("a1 to a2 to a3") and from_notation("a1 a2") have raised.
C12_Witness ==
    /\ Parsed
    /\ last_call.text \in {<<"a", "1">> \o TO \o <<"a", "2">> \o TO \o <<"a", "3">>,
                           <<"a", "1", " ", "a", "2">>}
    /\ last_call.ret.raised = "ValueError"

\* C13: from_notation raises ValueError on every text with " to " at exactly
\* one place whose left or right part is not one file letter of a..h followed
\* by one rank digit of 1..8; hence every Move it returns has both squares on
\* the board.
C13_MalformedSquareRaises ==
    /\ Parsed /\ Delimiters(last_call.text) = 1 /\ ~MoveText(last_call.text)
          => last_call.ret.raised = "ValueError"
    /\ Parsed /\ last_call.ret.raised = None
          => /\ last_call.ret.value.from_pos \in Squares
             /\ last_call.ret.value.to_pos \in Squares

----------------------------------------------------------------------------
(* Board.get_piece and Board.set_piece called directly, as TestBoard does *)

\* The coordinates passed: the board's and those up to Margin steps off it.
Margin == 2
Coordinates == (0 - Margin)..(BOARD_SIZE - 1 + Margin)

\* Board(), or the board of test_capture_moves; no game is being played.
InitBoard ==
    /\ board \in {init_board, CaptureTestBoard}
    /\ current_player = NewGame.current_player
    /\ move_history = NewGame.move_history
    /\ winner = NewGame.winner
    /\ game_over = NewGame.game_over
    /\ last_call = NoCall
    /\ NoObjects
    /\ NoTournament

\* board.set_piece(row, col, piece)
CallSetPiece ==
    /\ last_call = NoCall
    /\ \E row \in Coordinates, col \in Coordinates, piece \in {None} \cup Player :
          /\ board' = set_piece(board, row, col, piece)
          /\ last_call' = [op |-> "set_piece", row |-> row, col |-> col,
                           piece |-> piece]
    /\ UNCHANGED <<current_player, move_history, winner, game_over, objects,
                   tournament>>

\* board.get_piece(row, col): on any coordinates, or, after a set_piece, on
\* the coordinates just written (test_board_set_get_piece).
CallGetPiece ==
    /\ last_call.op \in {"none", "set_piece"}
    /\ \E row \in Coordinates, col \in Coordinates :
          /\ last_call.op = "set_piece" => row = last_call.row /\ col = last_call.col
          /\ last_call' = [op |-> "get_piece", row |-> row, col |-> col,
                           ret |-> get_piece(board, row, col)]
    /\ UNCHANGED <<game, objects, tournament>>

NextBoard ==
    \/ CallSetPiece
    \/ CallGetPiece

SpecBoard == InitBoard /\ [][NextBoard]_vars


----------------------------------------------------------------------------
(* Claims about the board accessors *)

OnBoard(row, col) == row \in Rows /\ col \in Cols

\* C14: off the board (row or col outside 0..7, negative values included)
\* get_piece returns None and set_piece changes no square; on the board,
\* set_piece(row, col, p) changes that square only and get_piece(row, col)
\* then returns p.
C14_AccessorsTotal ==
    /\ [](last_call.op = "get_piece" /\ ~OnBoard(last_call.row, last_call.col)
             => last_call.ret = None)
    /\ [][last_call'.op = "set_piece" =>
            LET c == last_call'
            IN IF OnBoard(c.row, c.col)
               THEN \A s \in Squares :
                       board'[s[1] + 1][s[2] + 1] =
                          IF s = <<c.row, c.col>> THEN c.piece
                          ELSE board[s[1] + 1][s[2] + 1]
               ELSE board' = board]_vars
    /\ [][last_call.op = "set_piece" /\ last_call'.op = "get_piece"
             /\ OnBoard(last_call.row, last_call.col)
          => last_call'.ret = last_call.piece]_vars

\* set_piece(-1, 7, WHITE) has been called on a new board, whose squares are
\* all as they were.
C14_Witness ==
    /\ last_call = [op |-> "set_piece", row |-> -1, col |-> 7, piece |-> WHITE]
    /\ board = init_board

----------------------------------------------------------------------------
(* Objects and copies.  A Game, its Board, the Board's grid and the          *)
(* move_history list are objects of a heap; a reference is an index into     *)
(* heap, and an attribute that holds an object holds its reference.  A       *)
(* method that mutates an object in place rewrites the heap at its           *)
(* reference, so whoever shares the reference sees the change.  Piece and    *)
(* Move objects are never mutated by the engine and stay values.             *)

ListObject(items) == [cls |-> "list", items |-> items]
BoardObject(grid) == [cls |-> "Board", grid |-> grid]
GameObject(b, player, history, w, over) ==
    [cls |-> "Game", board |-> b, current_player |-> player,
     move_history |-> history, winner |-> w, game_over |-> over]

\* A new object on heap h: the heap with the object and the reference to it.
new(h, object) == [heap |-> Append(h, object), ref |-> Len(h) + 1]

\* Board(): a grid set up by _init_board.
new_Board(h) ==
    LET grid == new(h, ListObject(init_board))
    IN new(grid.heap, BoardObject(grid.ref))

\* Game()
new_Game(h) ==
    LET b == new_Board(h)
        history == new(b.heap, ListObject(<<>>))
    IN new(history.heap, GameObject(b.ref, WHITE, history.ref, None, FALSE))

\* Board.copy with the grid shared: new_board.grid = self.grid
Board_copy_shared_grid(h, b) == new(h, BoardObject(h[b].grid))

\* Board.copy: a Board made without __init__ whose grid is a deep copy (new
\* lists, new pieces) of self.grid.
Board_copy(h, b) ==
    LET grid == new(h, ListObject(h[h[b].grid].items))
    IN new(grid.heap, BoardObject(grid.ref))

\* Game.copy: the board is copied with Board.copy, move_history with
\* list.copy (a new list of the same Move objects), the rest is assigned.
Game_copy(h, g) ==
    LET b == Board_copy(h, h[g].board)
        history == new(b.heap, ListObject(h[h[g].move_history].items))
    IN new(history.heap,
           GameObject(b.ref, h[g].current_player, history.ref, h[g].winner,
                      h[g].game_over))

\* The state of the Game at reference g, followed through its references.
GameAt(h, g) ==
    Game(h[h[h[g].board].grid].items, h[g].current_player,
         h[h[g].move_history].items, h[g].winner, h[g].game_over)

\* game.make_move(move) on the Game at g: the grid and move_history are
\* mutated in place, the other attributes are assigned on the Game object.
Game_make_move(h, g, move) ==
    LET r == make_move(GameAt(h, g), move)
    IN [heap |-> [h EXCEPT ![h[h[g].board].grid].items = r.game.board,
                           ![h[g].move_history].items = r.game.move_history,
                           ![g].current_player = r.game.current_player,
                           ![g].winner = r.game.winner,
                           ![g].game_over = r.game.game_over],
        ret |-> r.ret]

\* board.set_piece(row, col, piece) on the Board at b: the grid is mutated in
\* place.
Board_set_piece(h, b, row, col, piece) ==
    [h EXCEPT ![h[b].grid].items = set_piece(@, row, col, piece)]

MaxCopyPlies == 2

\* game1 = Game(); nothing else exists.
InitCopy ==
    /\ board = NewGame.board
    /\ current_player = NewGame.current_player
    /\ move_history = NewGame.move_history
    /\ winner = NewGame.winner
    /\ game_over = NewGame.game_over
    /\ last_call = NoCall
    /\ heap = new_Game(<<>>).heap
    /\ game1 = new_Game(<<>>).ref
    /\ game2 = null
    /\ workers = <<>>
    /\ NoTournament

\* The games a caller holds.
Held == {game1, game2} \ {null}

\* game2 = game1.copy()
CallCopy ==
    /\ game2 = null
    /\ \E r \in {Game_copy(heap, game1)} :
          /\ heap' = r.heap
          /\ game2' = r.ref
    /\ last_call' = [op |-> "copy", target |-> game1]
    /\ UNCHANGED <<game, game1, workers, tournament>>

\* The moves passed to make_move on a held game: its legal moves from file e
\* and a move that is never legal.
CopyCols == {4}
CopyMoveInputs(g) ==
    {m \in Range(get_legal_moves(GameAt(heap, g).board, GameAt(heap, g).current_player)) :
        m.from_pos[2] \in CopyCols}
    \cup {Move(<<4, 4>>, <<4, 4>>, FALSE)}

\* g.make_move(move) on a held game
CallMakeMoveOn ==
    /\ \E g \in Held :
          /\ Len(GameAt(heap, g).move_history) < MaxCopyPlies
          /\ \E move \in CopyMoveInputs(g) :
                \E r \in {Game_make_move(heap, g, move)} :
                   /\ heap' = r.heap
                   /\ last_call' = [op |-> "make_move", target |-> g,
                                    move |-> move, ret |-> r.ret]
    /\ UNCHANGED <<game, game1, game2, workers, tournament>>

\* g.board.set_piece(row, col, piece) on a held game, as test_board_copy does
\* on a Board: square (4,4), or a square off the board.
CopySetSquares == {<<4, 4>>, <<-1, 4>>}
CallSetPieceOn ==
    /\ \E g \in Held, s \in CopySetSquares, piece \in {None} \cup Player :
          /\ heap' = Board_set_piece(heap, heap[g].board, s[1], s[2], piece)
          /\ last_call' = [op |-> "set_piece", target |-> g, row |-> s[1],
                           col |-> s[2], piece |-> piece]
    /\ UNCHANGED <<game, game1, game2, workers, tournament>>

NextCopy ==
    \/ CallCopy
    \/ CallMakeMoveOn
    \/ CallSetPieceOn

SpecCopy == InitCopy /\ [][NextCopy]_vars


----------------------------------------------------------------------------
(* Claims about copies *)

\* C15: game1.copy() returns a game whose board, current_player,
\* move_history, game_over and winner equal those of game1 and leaves game1 as
\* it was; from then on no make_move or set_piece call on the copy changes any
\* of these in game1, and no such call on game1 changes any of them in the
\* copy.
C15_CopyIndependent ==
    /\ [][last_call'.op = "copy" /\ game2 = null =>
            /\ game1' = game1
            /\ GameAt(heap', game1) = GameAt(heap, game1)
            /\ GameAt(heap', game2') = GameAt(heap, game1)
            /\ game2' # game1]_vars
    /\ [][game2 # null /\ last_call'.op \in {"make_move", "set_piece"} =>
            /\ last_call'.target = game2 => GameAt(heap', game1) = GameAt(heap, game1)
            /\ last_call'.target = game1 => GameAt(heap', game2) = GameAt(heap, game2)]_vars

\* test_game_copy: game1 was copied after (6,4)->(5,4), then (1,4)->(2,4) was
\* made on the copy: game1 has one move in its history and an empty (2,4),
\* the copy has two moves and a BLACK piece on (2,4).
C15_Witness ==
    /\ game2 # null
    /\ GameAt(heap, game1).move_history = <<Move(<<6, 4>>, <<5, 4>>, FALSE)>>
    /\ GameAt(heap, game2).move_history =
          <<Move(<<6, 4>>, <<5, 4>>, FALSE), Move(<<1, 4>>, <<2, 4>>, FALSE)>>
    /\ get_piece(GameAt(heap, game1).board, 2, 4) = None
    /\ get_piece(GameAt(heap, game2).board, 2, 4) = BLACK
    /\ last_call.op = "make_move" /\ last_call.target = game2

----------------------------------------------------------------------------
(* Agents (src/breakthrough/llm_players.py) *)

\* LLMPlayer.__init__
LLMPlayer(name, player_color) ==
    [name |-> name, player_color |-> player_color, move_count |-> 0]

\* What random.choice(legal_moves) comes to during one game: the agent of
\* either side keeps to one end of the list, picks[side] saying which.  The
\* first legal move is also what OpenAIPlayer and AnthropicPlayer fall back on.
Picks == [Player -> {"first", "last"}]
choice(legal_moves, pick) ==
    IF pick = "first" THEN legal_moves[1] ELSE legal_moves[Len(legal_moves)]

\* RandomPlayer.get_move without the turn check.
get_move_any_turn(agent, g, pick) ==
    LET legal_moves == get_legal_moves(g.board, g.current_player)
    IN IF legal_moves = <<>> THEN Raises("ValueError")
       ELSE Returns(choice(legal_moves, pick))

\* RandomPlayer.get_move; the turn check is that of every concrete agent.
get_move(agent, g, pick) ==
    IF g.current_player # agent.player_color THEN Raises("ValueError")
    ELSE LET legal_moves == get_legal_moves(g.board, g.current_player)
         IN IF legal_moves = <<>> THEN Raises("ValueError")
            ELSE Returns(choice(legal_moves, pick))

\* RandomPlayer.get_move, "self.move_count += 1" before it returns a move.
count_move(agent) == [agent EXCEPT !.move_count = @ + 1]

\* LLMPlayer.get_move is abstract: an agent may also fail for a reason of its
\* own (an API error, a timeout) or return a Move of its own making.
StrayMoves == {Move(<<4, 4>>, <<3, 4>>, FALSE), Move(<<-1, 4>>, <<0, 4>>, FALSE)}
Faults == {Raises("Exception")} \cup {Returns(m) : m \in StrayMoves}

----------------------------------------------------------------------------
(* Tournament (src/breakthrough/tournament.py) *)

\* Board.to_string through Game.get_board_state: "W", "B" or " " for each
\* square, row by row; the frame and the labels, the same for every board, are
\* left out.
to_string(b) ==
    [r \in 1..BOARD_SIZE |-> [c \in 1..BOARD_SIZE |->
        IF b[r][c] = None THEN " " ELSE IF b[r][c] = WHITE THEN "W" ELSE "B"]]

\* _play_game, "max_moves = 200  # Prevent infinite games"
max_moves == 200

\* run(), "Alternate colors", with player1 WHITE in the even games.
white_player_even_first == IF game_num % 2 = 0 THEN 1 ELSE 2

\* run(), "Alternate colors": which of player1 and player2 is white_player.
white_player == IF game_num % 2 = 1 THEN 1 ELSE 2

\* run(), "Alternate colors": black_player is the other one.
black_player == 3 - white_player

Agent(i) == IF i = 1 THEN player1 ELSE player2

\* _play_game, "if game.current_player == Player.WHITE: player = white_player"
player == IF current_player = WHITE THEN white_player ELSE black_player

\* "except Exception" catching ValueError only.
caught_value_errors_only(exception) == exception = "ValueError"

\* _play_game, "except Exception as e": every exception an agent raises is an
\* Exception.
caught(exception) == exception \in {"ValueError", "Exception"}

\* GameResult (the timestamp, a wall-clock reading, is left out)
GameResult(game_id, name1, name2, w, loser, is_draw, ms, duration, history) ==
    [game_id |-> game_id, player1_name |-> name1, player2_name |-> name2,
     winner |-> w, loser |-> loser, is_draw |-> is_draw, moves |-> ms,
     move_count |-> Len(ms), duration_seconds |-> duration,
     board_history |-> history]

\* "Determine result" with black_player.name as the loser whoever won.
game_result_loser_always_black(duration) ==
    LET white == Agent(white_player).name
        black == Agent(black_player).name
    IN IF winner = WHITE
       THEN GameResult(game_num, white, black, white, black, FALSE, moves,
                       duration, board_history)
       ELSE IF winner = BLACK
       THEN GameResult(game_num, white, black, black, black, FALSE, moves,
                       duration, board_history)
       ELSE GameResult(game_num, white, black, None, None, TRUE, moves,
                       duration, board_history)

\* _play_game, "Determine result" and the GameResult built from it.
game_result(duration) ==
    LET white == Agent(white_player).name
        black == Agent(black_player).name
    IN IF winner = WHITE
       THEN GameResult(game_num, white, black, white, black, FALSE, moves,
                       duration, board_history)
       ELSE IF winner = BLACK
       THEN GameResult(game_num, white, black, black, white, FALSE, moves,
                       duration, board_history)
       ELSE GameResult(game_num, white, black, None, None, TRUE, moves,
                       duration, board_history)

\* self.results.append(result) done only for a game somebody won.
append_if_won(rs, result) == IF result.winner = None THEN rs ELSE Append(rs, result)

\* run(), "self.results.append(result)"
append(rs, result) == Append(rs, result)

\* A float quotient n / d, kept as the pair; d = 0 is Python's
\* ZeroDivisionError.  The int 0 is the quotient 0 / 1.
Quotient(n, d) == <<n, d>>

\* _calculate_stats with the average taken unconditionally.
calculate_stats_always_dividing(rs, duration) ==
    LET \* sum(1 for r in self.results if ...)
        player1_wins == Cardinality({i \in DOMAIN rs : rs[i].winner = player1.name})
        player2_wins == Cardinality({i \in DOMAIN rs : rs[i].winner = player2.name})
        draws == Cardinality({i \in DOMAIN rs : rs[i].is_draw})
    IN [total_games |-> Len(rs), player1_wins |-> player1_wins,
        player2_wins |-> player2_wins, draws |-> draws,
        total_duration |-> duration,
        avg_game_duration |-> Quotient(duration, Len(rs))]

\* _calculate_stats
calculate_stats(rs, duration) ==
    LET \* sum(1 for r in self.results if ...)
        player1_wins == Cardinality({i \in DOMAIN rs : rs[i].winner = player1.name})
        player2_wins == Cardinality({i \in DOMAIN rs : rs[i].winner = player2.name})
        draws == Cardinality({i \in DOMAIN rs : rs[i].is_draw})
    IN [total_games |-> Len(rs), player1_wins |-> player1_wins,
        player2_wins |-> player2_wins, draws |-> draws,
        total_duration |-> duration,
        avg_game_duration |-> IF rs # <<>> THEN Quotient(duration, Len(rs))
                              ELSE Quotient(0, 1)]

\* Bounds: the number of games, and the ply before which an agent may fail
\* for a reason of its own.
MaxGames == 2
MaxFaultPly == 2

\* Agent names, the tests' names; nothing keeps two agents from having the
\* same name.
Names == {"Bot1", "Bot2"}

\* time.time() - start_time, in whole seconds.
Durations == {1, 2}

\* Tournament(player1, player2, num_games), the two agents built with any
\* colours (the tests and the CLI build player1 WHITE and player2 BLACK).
InitTournament ==
    /\ board = NewGame.board
    /\ current_player = NewGame.current_player
    /\ move_history = NewGame.move_history
    /\ winner = NewGame.winner
    /\ game_over = NewGame.game_over
    /\ last_call = NoCall
    /\ NoObjects
    /\ player1 \in {LLMPlayer("Bot1", c) : c \in Player}
    /\ player2 \in {LLMPlayer(n, c) : n \in Names, c \in Player}
    /\ num_games \in 0..MaxGames
    /\ results = <<>>
    /\ pc = "idle"
    /\ game_num = 0
    /\ picks = None
    /\ moves = <<>>
    /\ move_count = 0
    /\ board_history = <<>>
    /\ total_duration = 0
    /\ stats = None

\* run() up to the head of its for loop.
Run ==
    /\ pc = "idle"
    /\ total_duration' = 0
    /\ game_num' = 1
    /\ pc' = "loop"
    /\ UNCHANGED <<game, last_call, objects, player1, player2, num_games,
                   results, picks, moves, move_count, board_history, stats>>

\* One more turn of the for loop: the colours are assigned and _play_game runs
\* up to the head of its while loop.
StartGame ==
    /\ pc = "loop"
    /\ game_num <= num_games
    /\ SetGame(NewGame)
    /\ player1' = [player1 EXCEPT !.move_count = 0]
    /\ player2' = [player2 EXCEPT !.move_count = 0]
    /\ board_history' = <<to_string(NewGame.board)>>
    /\ moves' = <<>>
    /\ move_count' = 0
    /\ picks' \in Picks
    /\ pc' = "play"
    /\ last_call' = [op |-> "Game"]
    /\ UNCHANGED <<objects, num_games, results, game_num, total_duration, stats>>

\* The while loop of _play_game goes on.
Playing == pc = "play" /\ ~game_over /\ move_count < max_moves

\* The body of the while loop with the move recorded before make_move's
\* answer is looked at.
LoopBody_recording_rejected(outcome) ==
    IF outcome.raised # None
    THEN /\ pc' = IF caught(outcome.raised) THEN "ended" ELSE "raised"
         /\ last_call' = [op |-> "get_move", raised |-> outcome.raised]
         /\ UNCHANGED <<game, moves, board_history, move_count>>
    ELSE /\ MakeMove(outcome.value)
         /\ moves' = Append(moves, to_notation(outcome.value))
         /\ board_history' = Append(board_history, to_string(board'))
         /\ move_count' = move_count + 1
         /\ pc' = IF last_call'.ret THEN "play" ELSE "ended"

\* The body of the while loop with the board recorded before the move is
\* made.
LoopBody_board_before_move(outcome) ==
    IF outcome.raised # None
    THEN /\ pc' = IF caught(outcome.raised) THEN "ended" ELSE "raised"
         /\ last_call' = [op |-> "get_move", raised |-> outcome.raised]
         /\ UNCHANGED <<game, moves, board_history, move_count>>
    ELSE /\ MakeMove(outcome.value)
         /\ IF last_call'.ret
            THEN /\ moves' = Append(moves, to_notation(outcome.value))
                 /\ board_history' = Append(board_history, to_string(board))
                 /\ move_count' = move_count + 1
                 /\ pc' = "play"
            ELSE /\ pc' = "ended"
                 /\ UNCHANGED <<moves, board_history, move_count>>

\* The body of the while loop, given what player.get_move(game) did: an
\* exception ends the loop (and leaves run() if it is not caught), and so does
\* a move that make_move rejects; an accepted move and the board after it are
\* recorded.
LoopBody(outcome) ==
    IF outcome.raised # None
    THEN /\ pc' = IF caught(outcome.raised) THEN "ended" ELSE "raised"
         /\ last_call' = [op |-> "get_move", raised |-> outcome.raised]
         /\ UNCHANGED <<game, moves, board_history, move_count>>
    ELSE /\ MakeMove(outcome.value)
         /\ IF last_call'.ret
            THEN /\ moves' = Append(moves, to_notation(outcome.value))
                 /\ board_history' = Append(board_history, to_string(board'))
                 /\ move_count' = move_count + 1
                 /\ pc' = "play"
            ELSE /\ pc' = "ended"
                 /\ UNCHANGED <<moves, board_history, move_count>>

\* One turn of the while loop with an agent that does what RandomPlayer does.
PlayMove ==
    /\ Playing
    /\ \E outcome \in {get_move(Agent(player), Self, picks[current_player])} :
          /\ LoopBody(outcome)
          /\ IF outcome.raised # None
             THEN UNCHANGED <<player1, player2>>
             ELSE /\ player1' = IF player = 1 THEN count_move(player1) ELSE player1
                  /\ player2' = IF player = 2 THEN count_move(player2) ELSE player2
    /\ UNCHANGED <<objects, num_games, results, game_num, picks, total_duration,
                   stats>>

\* One turn of the while loop with an agent that fails for a reason of its
\* own or returns a Move of its own making.
PlayFault ==
    /\ Playing
    /\ move_count < MaxFaultPly
    /\ \E outcome \in Faults : LoopBody(outcome)
    /\ UNCHANGED <<objects, player1, player2, num_games, results, game_num,
                   picks, total_duration, stats>>

\* The rest of _play_game once the while loop is left, and of the turn of the
\* for loop: the result is built and appended.
EndGame ==
    /\ pc = "ended" \/ (pc = "play" /\ ~Playing)
    /\ \E duration \in Durations :
          /\ results' = append(results, game_result(duration))
          /\ total_duration' = total_duration + duration
    /\ game_num' = game_num + 1
    /\ pc' = "loop"
    /\ UNCHANGED <<game, last_call, objects, player1, player2, num_games, picks,
                   moves, move_count, board_history, stats>>

\* The for loop is over: the statistics are computed and run() returns them.
Finish ==
    /\ pc = "loop"
    /\ game_num > num_games
    /\ stats' = calculate_stats(results, total_duration)
    /\ pc' = "done"
    /\ UNCHANGED <<game, last_call, objects, player1, player2, num_games,
                   results, game_num, picks, moves, move_count, board_history,
                   total_duration>>

NextTournament ==
    \/ Run
    \/ StartGame
    \/ PlayMove
    \/ PlayFault
    \/ EndGame
    \/ Finish

SpecTournament == InitTournament /\ [][NextTournament]_vars

\* run() is sequential code: it takes its next step as long as it has one.
FairTournament == SpecTournament /\ WF_vars(NextTournament)

\* The tournament the tests and the CLI build: player1 with colour WHITE,
\* player2 with colour BLACK, under different names.
InitCLI ==
    /\ InitTournament
    /\ player1 = LLMPlayer("Bot1", WHITE)
    /\ player2 = LLMPlayer("Bot2", BLACK)

SpecCLI == InitCLI /\ [][NextTournament]_vars


----------------------------------------------------------------------------
(* Claims about the tournament *)

Done == pc = "done"

\* C16: colours go by the parity of the game index: in odd games player1 is
\* asked for WHITE's moves and player2 for BLACK's, in even games the other
\* way round; results[i] has game_id i, the name of the WHITE agent of game i
\* as player1_name and that of its BLACK agent as player2_name.
C16_ColourParity ==
    /\ [](\A i \in 1..Len(results) :
            /\ results[i].game_id = i
            /\ results[i].player1_name =
                  IF i % 2 = 1 THEN player1.name ELSE player2.name
            /\ results[i].player2_name =
                  IF i % 2 = 1 THEN player2.name ELSE player1.name)
    /\ [][pc = "play" /\ player1'.move_count = player1.move_count + 1
             => current_player = (IF game_num % 2 = 1 THEN WHITE ELSE BLACK)]_vars
    /\ [][pc = "play" /\ player2'.move_count = player2.move_count + 1
             => current_player = (IF game_num % 2 = 1 THEN BLACK ELSE WHITE)]_vars

\* Two games were played by Bot1 and Bot2: Bot1 was WHITE in the first and
\* Bot2 in the second.
C16_Witness ==
    /\ Done
    /\ Len(results) = 2
    /\ results[1].player1_name = "Bot1" /\ results[1].player2_name = "Bot2"
    /\ results[2].player1_name = "Bot2" /\ results[2].player2_name = "Bot1"


\* C17: the stats run() returns add up: player1_wins + player2_wins + draws
\* is total_games, which is the number of games N, whatever N and whatever the
\* two agents.
C17_StatsAddUp ==
    Done =>
       /\ stats.player1_wins + stats.player2_wins + stats.draws = stats.total_games
       /\ stats.total_games = num_games

\* Stats of an N = 0 tournament: every field is zero (the average being the
\* quotient 0 / 1, not a division by zero).
ZeroStats ==
    [total_games |-> 0, player1_wins |-> 0, player2_wins |-> 0, draws |-> 0,
     total_duration |-> 0, avg_game_duration |-> Quotient(0, 1)]

\* C18: with N = 0 run() plays no game, raises nothing (no division by zero
\* in the average), leaves results empty and returns stats that are all zero.
C18_NoGames ==
    num_games = 0 =>
       /\ pc \in {"idle", "loop", "done"}
       /\ results = <<>>
       /\ Done => stats = ZeroStats

\* run() has returned from a tournament of no game.
C18_Witness == num_games = 0 /\ Done /\ stats = ZeroStats /\ results = <<>>

\* C19: one GameResult per game, whatever the outcome: while game i is being
\* played results holds the i - 1 results of the games before it, a step
\* either leaves results alone or appends one result to it, and when run()
\* returns results has N entries with game_id 1..N in that order.
C19_OneResultPerGame ==
    /\ [](pc \in {"play", "ended"} => Len(results) = game_num - 1)
    /\ [](pc = "loop" => Len(results) = game_num - 1)
    /\ [](Done => /\ Len(results) = num_games
                  /\ \A i \in 1..num_games : results[i].game_id = i)
    /\ [][\/ results' = results
          \/ /\ Len(results') = Len(results) + 1
             /\ SubSeq(results', 1, Len(results)) = results
             /\ pc \in {"play", "ended"}]_vars

\* run() has returned from two games: the first was played to a win, the
\* second stopped before any move; each has its result.
C19_Witness ==
    /\ Done
    /\ num_games = 2
    /\ Len(results) = 2
    /\ results[1].winner # None /\ results[1].move_count > 0
    /\ results[2].winner = None /\ results[2].move_count = 0

\* The game has just been stopped by an agent: get_move raised, or make_move
\* rejected the move it returned.
Stopped ==
    /\ pc = "ended"
    /\ \/ last_call.op = "get_move"
       \/ last_call.op = "make_move" /\ ~last_call.ret

\* C20: when an agent's get_move raises or returns a move that make_move
\* rejects, the game ends there: the engine state and the recorded moves stay
\* as they were, the next step appends the result of this game with exactly
\* these moves, and run() goes on to play the remaining games and returns
\* stats over all N results.
C20_FailureConfined ==
    /\ [][pc = "play" /\ pc' # "play" /\ Playing =>
            /\ pc' = "ended"
            /\ Stopped'
            /\ UNCHANGED <<game, moves, board_history, results, game_num>>]_vars
    /\ [][Stopped /\ pc' # pc =>
            /\ results' = Append(results, results'[Len(results')])
            /\ results'[Len(results')].game_id = game_num
            /\ results'[Len(results')].moves = moves
            /\ pc' = "loop"
            /\ game_num' = game_num + 1]_vars
    /\ [](Stopped => <>(Done /\ Len(results) = num_games /\ stats.total_games = num_games))

\* The first of two games has been stopped by an agent after one move.
C20_Witness ==
    /\ Stopped
    /\ num_games = 2
    /\ game_num = 1
    /\ Len(moves) = 1

----------------------------------------------------------------------------
(* The ply cap *)

\* Every move takes a piece one row forward and a piece that reaches the far
\* row ends the game, so play that leaves the game alone is over long before
\* max_moves plies.  _play_game hands the live Game to get_move, which is
\* abstract: an agent may write to the game before it answers.  This one puts
\* every piece back where it started ("game.board = Board()").
meddle(g) == [g EXCEPT !.board = init_board]

\* One turn of the while loop with agents that meddle and then return the
\* first legal move.
PlayMeddler ==
    /\ Playing
    /\ \E g \in {meddle(Self)} :
       \E move \in {choice(get_legal_moves(g.board, g.current_player), "first")} :
       \E r \in {make_move(g, move)} :
          /\ SetGame(r.game)
          /\ last_call' = [op |-> "make_move", move |-> move, ret |-> r.ret]
          /\ IF r.ret
             THEN /\ moves' = Append(moves, to_notation(move))
                  /\ board_history' = Append(board_history, to_string(r.game.board))
                  /\ move_count' = move_count + 1
                  /\ pc' = "play"
             ELSE /\ pc' = "ended"
                  /\ UNCHANGED <<moves, board_history, move_count>>
    /\ UNCHANGED <<objects, player1, player2, num_games, results, game_num,
                   picks, total_duration, stats>>

\* Tournament(player1, player2, 1) with two such agents.
InitCap ==
    /\ InitTournament
    /\ player1 = LLMPlayer("Bot1", WHITE)
    /\ player2 = LLMPlayer("Bot2", BLACK)
    /\ num_games = 1

NextCap ==
    \/ Run
    \/ StartGame
    \/ PlayMeddler
    \/ EndGame
    \/ Finish

SpecCap == InitCap /\ [][NextCap]_vars

\* The while loop was left by the cap: max_moves moves applied, the engine
\* not over.
CapHit == ~game_over /\ move_count = max_moves

\* C21: a game stopped by the cap is recorded with no winner and not as a
\* draw (winner None, is_draw False), and the stats do not count it among the
\* draws.
C21_CapIsIncomplete ==
    /\ [][pc = "play" /\ CapHit /\ results' # results =>
            /\ results'[Len(results')].winner = None
            /\ results'[Len(results')].is_draw = FALSE]_vars
    /\ [](Done /\ CapHit => stats.draws = 0)

----------------------------------------------------------------------------
(* Claims about the games a tournament records *)

\* The result run() has appended in this step.
Appended == results'[Len(results')]

\* The moves of a record played again from the initial position: each text is
\* parsed with from_notation and handed to make_move; ok says that make_move
\* accepted every one of them, which it does for the members of
\* get_legal_moves() only.
RECURSIVE ReplayFrom(_, _, _)
ReplayFrom(g, ms, k) ==
    IF k > Len(ms) THEN [game |-> g, ok |-> TRUE]
    ELSE LET parsed == from_notation(ms[k])
         IN IF parsed.raised # None THEN [game |-> g, ok |-> FALSE]
            ELSE LET r == make_move(g, parsed.value)
                 IN IF ~r.ret THEN [game |-> g, ok |-> FALSE]
                    ELSE ReplayFrom(r.game, ms, k + 1)

Replay(ms) == ReplayFrom(NewGame, ms, 1)

\* Two games are in the same state: the same board, side to move, winner and
\* game_over, and histories whose moves compare equal (Move.__eq__, which
\* does not look at is_capture; the move parsed from a notation has none).
SameGame(a, b) ==
    /\ a.board = b.board
    /\ a.current_player = b.current_player
    /\ a.winner = b.winner
    /\ a.game_over = b.game_over
    /\ Len(a.move_history) = Len(b.move_history)
    /\ \A k \in 1..Len(a.move_history) : MoveEq(a.move_history[k], b.move_history[k])

\* C22: only legal moves are applied and recorded.  A step of the while loop
\* that changes the engine, moves or board_history appends to moves the
\* notation of one move that is legal in the state before it, and the engine
\* goes to the state make_move gives for it; a proposed move that is not
\* legal changes none of the three; and the moves of every result appended,
\* replayed from the initial position, are all legal and lead to the board
\* the game ended on.
C22_OnlyLegalMoves ==
    /\ [][pc = "play" /\ <<game, moves, board_history>>' # <<game, moves, board_history>> =>
            /\ Len(moves') = Len(moves) + 1
            /\ SubSeq(moves', 1, Len(moves)) = moves
            /\ \E parsed \in {from_notation(moves'[Len(moves')])} :
                  /\ parsed.raised = None
                  /\ is_legal_move(board, current_player, parsed.value)
                  /\ SameGame(make_move(Self, parsed.value).game, Self')]_vars
    /\ [][/\ pc = "play" /\ pc' # "loop" /\ last_call'.op = "make_move"
          /\ ~is_legal_move(board, current_player, last_call'.move)
          => UNCHANGED <<game, moves, board_history>>]_vars
    /\ [][results' # results =>
            \E replayed \in {Replay(Appended.moves)} :
               /\ replayed.ok
               /\ replayed.game.board = board
               /\ to_string(replayed.game.board) =
                     Appended.board_history[Len(Appended.board_history)]]_vars

\* A game was recorded with the one move applied before an agent proposed a
\* move from an empty square, which make_move rejected.
C22_Witness ==
    /\ pc = "loop"
    /\ results # <<>>
    /\ results[Len(results)].move_count = 1
    /\ last_call = [op |-> "make_move", move |-> Move(<<4, 4>>, <<3, 4>>, FALSE),
                    ret |-> FALSE]

\* The side that won a recorded game, read off its last board: a WHITE piece
\* on row 0 or a BLACK piece on row 7.
WinningSide(result) ==
    LET last == result.board_history[Len(result.board_history)]
    IN IF \E c \in 1..BOARD_SIZE : last[1][c] = "W" THEN WHITE
       ELSE IF \E c \in 1..BOARD_SIZE : last[BOARD_SIZE][c] = "B" THEN BLACK
       ELSE None

\* Which of the tournament's two players won game i (0: neither): player1 has
\* WHITE in the odd games and BLACK in the even ones.
WonBy(i) ==
    LET side == WinningSide(results[i])
    IN IF side = None THEN 0
       ELSE IF (side = WHITE) = (i % 2 = 1) THEN 1 ELSE 2

\* C23: wins go by agent name: a result appended for a game the engine gave
\* to a side has the name of that side's agent as winner and the name of the
\* other agent as loser, and in the stats run() returns player1_wins is the
\* number of games won by player1 and player2_wins the number of games won by
\* player2.
C23_WinsByName ==
    /\ [][results' # results /\ winner # None =>
            /\ WinningSide(Appended) = winner
            /\ Appended.winner =
                  Agent(IF winner = WHITE THEN white_player ELSE black_player).name
            /\ Appended.loser =
                  Agent(IF winner = WHITE THEN black_player ELSE white_player).name]_vars
    /\ [](Done =>
            /\ stats.player1_wins = Cardinality({i \in 1..Len(results) : WonBy(i) = 1})
            /\ stats.player2_wins = Cardinality({i \in 1..Len(results) : WonBy(i) = 2}))

\* C24: every record is consistent: move_count is the number of moves,
\* board_history has one board more than moves and starts with the initial
\* board; while a game is played board_history likewise has one board more
\* than moves and ends with the engine's board, a step that records a move
\* appends exactly the board right after that move, and the result appended
\* carries moves and board_history as they stand, however the game ended.
C24_RecordConsistent ==
    /\ [](\A i \in 1..Len(results) :
            /\ results[i].move_count = Len(results[i].moves)
            /\ Len(results[i].board_history) = Len(results[i].moves) + 1
            /\ results[i].board_history[1] = to_string(init_board))
    /\ [](pc \in {"play", "ended"} =>
            /\ move_count = Len(moves)
            /\ Len(board_history) = Len(moves) + 1
            /\ board_history[1] = to_string(init_board)
            /\ board_history[Len(board_history)] = to_string(board))
    /\ [][pc = "play" /\ moves' # moves =>
            /\ Len(moves') = Len(moves) + 1
            /\ board' = make_move(Self, last_call'.move).game.board
            /\ board_history' = Append(board_history, to_string(board'))]_vars
    /\ [][moves' = moves /\ pc' # "play" => board_history' = board_history]_vars
    /\ [][results' # results =>
            /\ Appended.moves = moves
            /\ Appended.board_history = board_history]_vars

\* Two records: a game of eleven moves played to a win, with twelve boards,
\* and a game stopped before any move, with the initial board alone.
C24_Witness ==
    /\ Len(results) = 2
    /\ results[1].winner # None
    /\ results[1].move_count = 11 /\ Len(results[1].board_history) = 12
    /\ results[2].move_count = 0
    /\ results[2].board_history = <<to_string(init_board)>>

\* C25: in every result is_draw is True exactly when winner is None and
\* exactly when loser is None; when is_draw is False winner is the name of
\* one of the tournament's two agents and loser the name of the other.
C25_DrawWinnerLoser ==
    \A i \in 1..Len(results) :
       LET r == results[i]
       IN /\ r.is_draw = (r.winner = None)
          /\ (r.winner = None) = (r.loser = None)
          /\ ~r.is_draw =>
                \/ r.winner = player1.name /\ r.loser = player2.name
                \/ r.winner = player2.name /\ r.loser = player1.name

\* Bot1 and Bot2 have played two games: the BLACK side won the first, Bot2
\* beating Bot1, and the second has no winner, no loser and is_draw True.
C25_Witness ==
    /\ Len(results) = 2
    /\ results[1].winner = "Bot2" /\ results[1].loser = "Bot1"
    /\ results[1].player2_name = "Bot2" /\ ~results[1].is_draw
    /\ results[2].winner = None /\ results[2].loser = None /\ results[2].is_draw

----------------------------------------------------------------------------
(* An agent that hangs *)

\* One turn of the while loop with an agent whose get_move never returns
\* (LLMPlayer.get_move is abstract; the concrete agents wait for a network
\* reply).  "move = player.get_move(game)" is a plain call: _play_game waits
\* in it, and nothing in tournament.py interrupts it.
PlayHang ==
    /\ Playing
    /\ move_count < MaxFaultPly
    /\ pc' = "waiting"
    /\ last_call' = [op |-> "get_move"]
    /\ UNCHANGED <<game, objects, player1, player2, num_games, results,
                   game_num, picks, moves, move_count, board_history,
                   total_duration, stats>>

NextHang ==
    \/ NextTournament
    \/ PlayHang

\* run() is sequential code: it takes its next step as long as it has one.
FairHang == InitCLI /\ [][NextHang]_vars /\ WF_vars(NextHang)

\* C26: when an agent's get_move does not return, the call is timed out, the
\* game is ended with what was recorded so far, and run() still returns with
\* one result for each of the N games.
C26_HangTimesOut ==
    [](pc = "waiting" => <>(Done /\ Len(results) = num_games))

----------------------------------------------------------------------------
(* Games played side by side *)

\* run() plays its games one after the other.  Here two of them, games 1 and
\* 3 of a tournament of three, are played side by side: each worker runs
\* _play_game with locals of its own (its Game, moves, board_history,
\* move_count), on the tournament's two agents, which are the same objects
\* for every game.  A step is one turn of a worker's while loop.
WorkerGames == <<1, 3>>

\* The locals of one activation of _play_game, and the result it returns.
Frame(game_id, g, ms, history, count, pick, at, result) ==
    [game_id |-> game_id, game |-> g, moves |-> ms, board_history |-> history,
     move_count |-> count, picks |-> pick, pc |-> at, result |-> result]

\* run(), "Alternate colors", for the game a frame plays.
white_of(f) == IF f.game_id % 2 = 1 THEN 1 ELSE 2
black_of(f) == 3 - white_of(f)

\* _play_game, "if game.current_player == Player.WHITE: player = white_player"
player_of(f) == IF f.game.current_player = WHITE THEN white_of(f) ELSE black_of(f)

\* _play_game up to the head of its while loop, but for the two writes to
\* the agents.
StartFrame(game_id, pick) ==
    Frame(game_id, NewGame, <<>>, <<to_string(NewGame.board)>>, 0, pick, "play", None)

\* The while loop of a frame goes on.
FramePlaying(f) == f.pc = "play" /\ ~f.game.game_over /\ f.move_count < max_moves

\* One turn of the while loop on a frame, the agents being RandomPlayers: the
\* frame after it, and whether the agent asked has counted a move.
Turn(f) ==
    LET outcome == get_move(Agent(player_of(f)), f.game,
                            f.picks[f.game.current_player])
    IN IF outcome.raised # None
       THEN [frame |-> [f EXCEPT !.pc = "ended"], counted |-> FALSE]
       ELSE LET r == make_move(f.game, outcome.value)
            IN IF r.ret
               THEN [frame |-> [f EXCEPT
                                   !.game = r.game,
                                   !.moves = Append(@, to_notation(outcome.value)),
                                   !.board_history = Append(@, to_string(r.game.board)),
                                   !.move_count = @ + 1],
                     counted |-> TRUE]
               ELSE [frame |-> [f EXCEPT !.pc = "ended"], counted |-> TRUE]

\* _play_game, "Determine result" and the GameResult built from it, on a
\* frame.
frame_result(f, duration) ==
    LET white == Agent(white_of(f)).name
        black == Agent(black_of(f)).name
    IN IF f.game.winner = WHITE
       THEN GameResult(f.game_id, white, black, white, black, FALSE, f.moves,
                       duration, f.board_history)
       ELSE IF f.game.winner = BLACK
       THEN GameResult(f.game_id, white, black, black, white, FALSE, f.moves,
                       duration, f.board_history)
       ELSE GameResult(f.game_id, white, black, None, None, TRUE, f.moves,
                       duration, f.board_history)

\* The picks of the workers' agents: those of the short games.
WorkerPicks == {p \in Picks : p[WHITE] = "first" \/ p[BLACK] = "last"}

\* run() hands games 1 and 3 to two workers.
Fork ==
    /\ pc = "idle"
    /\ num_games >= WorkerGames[Len(WorkerGames)]
    /\ pc' = "workers"
    /\ workers' = [w \in 1..Len(WorkerGames) |->
                     Frame(WorkerGames[w], None, <<>>, <<>>, 0, None, "new", None)]
    /\ UNCHANGED <<game, last_call, heap, game1, game2, player1, player2,
                   num_games, results, game_num, picks, moves, move_count,
                   board_history, total_duration, stats>>

\* Worker w enters _play_game: "game = Game()", and both agents' move_count
\* set to 0.
StartWorker(w) ==
    /\ pc = "workers"
    /\ workers[w].pc = "new"
    /\ \E pick \in WorkerPicks :
          workers' = [workers EXCEPT ![w] = StartFrame(workers[w].game_id, pick)]
    /\ player1' = [player1 EXCEPT !.move_count = 0]
    /\ player2' = [player2 EXCEPT !.move_count = 0]
    /\ UNCHANGED <<game, last_call, heap, game1, game2, num_games, results,
                   pc, game_num, picks, moves, move_count, board_history,
                   total_duration, stats>>

\* One turn of worker w's while loop; get_move counts the move on the agent.
WorkerTurn(w) ==
    /\ pc = "workers"
    /\ FramePlaying(workers[w])
    /\ \E t \in {Turn(workers[w])} :
          /\ workers' = [workers EXCEPT ![w] = t.frame]
          /\ player1' = IF t.counted /\ player_of(workers[w]) = 1
                        THEN count_move(player1) ELSE player1
          /\ player2' = IF t.counted /\ player_of(workers[w]) = 2
                        THEN count_move(player2) ELSE player2
    /\ UNCHANGED <<game, last_call, heap, game1, game2, num_games, results,
                   pc, game_num, picks, moves, move_count, board_history,
                   total_duration, stats>>

\* Worker w leaves the while loop and returns its result.
WorkerEnd(w) ==
    /\ pc = "workers"
    /\ workers[w].pc \in {"play", "ended"}
    /\ ~FramePlaying(workers[w])
    /\ \E duration \in Durations :
          workers' = [workers EXCEPT
                         ![w].result = frame_result(workers[w], duration),
                         ![w].pc = "done"]
    /\ UNCHANGED <<game, last_call, heap, game1, game2, player1, player2,
                   num_games, results, pc, game_num, picks, moves, move_count,
                   board_history, total_duration, stats>>

NextWorkers ==
    \/ Fork
    \/ \E w \in 1..Len(WorkerGames) : StartWorker(w)
    \/ \E w \in 1..Len(WorkerGames) : WorkerTurn(w)
    \/ \E w \in 1..Len(WorkerGames) : WorkerEnd(w)

\* Tournament(player1, player2, 3) with the agents the tests build.
InitWorkers ==
    /\ board = NewGame.board
    /\ current_player = NewGame.current_player
    /\ move_history = NewGame.move_history
    /\ winner = NewGame.winner
    /\ game_over = NewGame.game_over
    /\ last_call = NoCall
    /\ NoObjects
    /\ player1 = LLMPlayer("Bot1", WHITE)
    /\ player2 = LLMPlayer("Bot2", BLACK)
    /\ num_games = WorkerGames[Len(WorkerGames)]
    /\ results = <<>>
    /\ pc = "idle"
    /\ game_num = 0
    /\ picks = None
    /\ moves = <<>>
    /\ move_count = 0
    /\ board_history = <<>>
    /\ total_duration = 0
    /\ stats = None

SpecWorkers == InitWorkers /\ [][NextWorkers]_vars


----------------------------------------------------------------------------
(* Claims about games played side by side *)

\* The other worker.
Other(w) == Len(WorkerGames) + 1 - w

\* The step is one of worker w.
Stepped(w) ==
    \/ workers'[w].pc # workers[w].pc
    \/ workers'[w].move_count # workers[w].move_count

\* A frame played to the end of its while loop with no other game running.
RECURSIVE PlayOut(_)
PlayOut(f) == IF FramePlaying(f) THEN PlayOut(Turn(f).frame) ELSE f

\* Two results are the same but for the time the game took.
SameResult(a, b) == [a EXCEPT !.duration_seconds = 0] = [b EXCEPT !.duration_seconds = 0]

\* C27: games share no mutable state.  A step of one game writes nothing the
\* other game has written: once the other game has started (it has then set
\* the move_count of both agents), no step of this game changes an agent;
\* and the result a worker returns is the result of the same game played on
\* its own.
C27_GamesShareNothing ==
    /\ [][pc = "workers" =>
            \A w \in 1..Len(WorkerGames) :
               Stepped(w) /\ workers[Other(w)].pc # "new"
               => UNCHANGED <<player1, player2>>]_vars
    /\ [][pc = "workers" =>
            \A w \in 1..Len(WorkerGames) :
               workers[w].pc # "done" /\ workers'[w].pc = "done"
               => SameResult(workers'[w].result,
                             frame_result(PlayOut(StartFrame(workers[w].game_id,
                                                             workers[w].picks)), 0))]_vars

----------------------------------------------------------------------------
(* RandomPlayer.get_move called on a game, as TestRandomPlayer does *)

\* The number of moves an agent is let count.
MaxCounted == 3

\* player = RandomPlayer("TestBot", colour) and game = Game(), the board and
\* the side to move possibly set up as the tests do.
InitAgent ==
    /\ \/ board = init_board /\ current_player = WHITE
       \/ board = CaptureTestBoard /\ current_player = WHITE
       \/ board \in SetupBoards /\ current_player \in Player
    /\ move_history = <<>>
    /\ winner = None
    /\ game_over = FALSE
    /\ last_call = NoCall
    /\ NoObjects
    /\ player1 \in {LLMPlayer("TestBot", c) : c \in Player}
    /\ player2 = None /\ num_games = 0 /\ results = <<>>
    /\ pc = "none" /\ game_num = 0 /\ picks = None /\ moves = <<>>
    /\ move_count = 0 /\ board_history = <<>> /\ total_duration = 0
    /\ stats = None

\* player.get_move(game): ret holds the move returned, if one is.
CallGetMove ==
    /\ player1.move_count < MaxCounted
    /\ \E pick \in {"first", "last"} :
       \E outcome \in {get_move(player1, Self, pick)} :
          /\ last_call' = [op |-> "get_move", raised |-> outcome.raised,
                           ret |-> IF outcome.raised # None THEN <<>>
                                   ELSE <<outcome.value>>]
          /\ player1' = IF outcome.raised # None THEN player1
                        ELSE count_move(player1)
    /\ UNCHANGED <<game, objects, player2, num_games, results, pc, game_num,
                   picks, moves, move_count, board_history, total_duration,
                   stats>>

\* game.make_move(move) with the move get_move has just returned.
CallMakeMoveReturned ==
    /\ last_call.op = "get_move"
    /\ last_call.ret # <<>>
    /\ MakeMove(last_call.ret[1])
    /\ UNCHANGED <<objects, tournament>>

\* test_random_player_move_count, "Switch to white's turn for testing":
\* game.current_player is assigned.
AssignCurrentPlayer ==
    /\ last_call.op = "make_move"
    /\ current_player' = Opponent(current_player)
    /\ last_call' = [op |-> "current_player"]
    /\ UNCHANGED <<board, move_history, winner, game_over, objects, tournament>>

NextAgent ==
    \/ CallGetMove
    \/ CallMakeMoveReturned
    \/ AssignCurrentPlayer

SpecAgent == InitAgent /\ [][NextAgent]_vars


----------------------------------------------------------------------------
(* Claims about RandomPlayer *)

\* C28: RandomPlayer.get_move(game).  When it is the player's turn and there
\* is a legal move, the call raises nothing, returns a member of
\* game.get_legal_moves() and adds exactly 1 to move_count; otherwise it
\* raises ValueError, returns no move and leaves move_count as it was.  In
\* both cases the game is left as it was.
C28_GetMoveContract ==
    [][last_call'.op = "get_move" =>
          /\ UNCHANGED game
          /\ IF /\ current_player = player1.player_color
                /\ get_legal_moves(board, current_player) # <<>>
             THEN /\ last_call'.raised = None
                  /\ Len(last_call'.ret) = 1
                  /\ MoveIn(last_call'.ret[1], get_legal_moves(board, current_player))
                  /\ player1'.move_count = player1.move_count + 1
             ELSE /\ last_call'.raised = "ValueError"
                  /\ last_call'.ret = <<>>
                  /\ player1' = player1]_vars

\* test_random_player_move_count: get_move has returned its third move, the
\* first two having been made on the board.
C28_Witness ==
    /\ last_call.op = "get_move"
    /\ last_call.raised = None
    /\ player1.move_count = 3
    /\ Len(move_history) = 2

----------------------------------------------------------------------------
(* A tournament between two RandomPlayers *)

\* Both agents do what RandomPlayer does in every turn.
NextRandom ==
    \/ Run
    \/ StartGame
    \/ PlayMove
    \/ EndGame
    \/ Finish

SpecRandom == InitCLI /\ [][NextRandom]_vars

\* C29: between two RandomPlayers built as the tests and the CLI build them
\* every game, odd or even, is played until the engine says it is over or
\* max_moves moves are applied: when a result is appended the game is over or
\* has max_moves moves, and the result has at least one move.
C29_EveryGamePlayed ==
    [][results' # results =>
          /\ game_over \/ Len(moves) = max_moves
          /\ Appended.move_count > 0]_vars

\* C30: is_draw is True only for a game the engine ended as a draw
\* (game_over with no winner): a result appended for a game that an agent's
\* exception or rejected move cut short has is_draw False, and the stats of a
\* one-game tournament count a draw only if the engine ended that game as a
\* draw.
C30_DrawOnlyIfEngineDraw ==
    /\ [][results' # results /\ Appended.is_draw => game_over /\ winner = None]_vars
    /\ [](Done /\ num_games = 1 /\ stats.draws = 1 => game_over /\ winner = None)

----------------------------------------------------------------------------
(* Claims about the length of a game *)

\* The rows a piece on the given row has left before its last row but one:
\* the number of moves it can still make without winning.
RowsLeft(piece, row) == IF piece = WHITE THEN row - 1 ELSE BOARD_SIZE - 2 - row

\* RowsLeft summed over the pieces of a board.
Remaining(b) ==
    LET rest[k \in 0..(BOARD_SIZE * BOARD_SIZE)] ==
            IF k = BOARD_SIZE * BOARD_SIZE THEN 0
            ELSE LET row == k \div BOARD_SIZE
                     col == k % BOARD_SIZE
                     piece == get_piece(b, row, col)
                 IN (IF piece = None THEN 0 ELSE RowsLeft(piece, row)) + rest[k + 1]
    IN rest[0]

\* C31: every game terminates, well before the cap.  A move applied while the
\* game is not over takes one piece exactly one row towards the opponent's
\* back rank, and either ends the game or leaves fewer moves to make
\* (Remaining goes down); so the moves made and the moves left never add up
\* to more than Remaining(init_board), a game has at most one move more than
\* that, which is fewer than max_moves, and no game between agents that
\* return legal moves is stopped by the cap.
C31_GamesTerminate ==
    /\ [][pc = "play" /\ moves' # moves =>
            /\ ~game_over
            /\ last_call'.move.to_pos[1] =
                  last_call'.move.from_pos[1] + (IF Mover = WHITE THEN -1 ELSE 1)
            /\ Mover = current_player
            /\ game_over' \/ Remaining(board') < Remaining(board)]_vars
    /\ [](pc \in {"play", "ended"} =>
            /\ ~game_over => /\ Remaining(board) >= 0
                             /\ Len(moves) + Remaining(board) <= Remaining(init_board)
            /\ Len(moves) <= Remaining(init_board) + 1
            /\ Remaining(init_board) + 1 < max_moves)
    /\ [][results' # results => ~(~game_over /\ move_count = max_moves)]_vars

\* A game of 114 moves, the longest of those played, has ended with a winner.
C31_Witness ==
    /\ results # <<>>
    /\ results[1].move_count = 114
    /\ results[1].winner # None

----------------------------------------------------------------------------
(* Claims about the outcome of a game *)

\* C32: the outcome is stable.  Once winner is a side, no call of make_move,
\* accepted or rejected, makes it the other side or None; and once game_over
\* is True it is never False again.
C32_OutcomeStable ==
    [][MakeMoveStep => /\ winner # None => winner' = winner
                       /\ game_over => game_over']_vars


\* C33: winner is set only by the mover's arrival on the opponent's back rank.
\* A call of make_move that changes winner was accepted, moved a piece of the
\* side to move onto row 0 (WHITE) or row 7 (BLACK) and made that side the
\* winner, never the side that did not move; and in every state a game with a
\* winner is over.
C33_WinnerIsArrivedMover ==
    /\ [][MakeMoveStep /\ winner' # winner =>
            /\ Accepted
            /\ BackRankArrival
            /\ Mover = current_player
            /\ winner' = Mover
            /\ winner' # current_player'
            /\ get_piece(board', last_call'.move.to_pos[1],
                         last_call'.move.to_pos[2]) = winner']_vars
    /\ [](winner # None => game_over)

\* BLACK has just won by moving a piece onto row 7.
C33_Witness ==
    /\ Returned(TRUE)
    /\ winner = BLACK
    /\ game_over
    /\ last_call.move.to_pos[1] = BOARD_SIZE - 1
    /\ current_player = WHITE


\* The pieces of a side on a row.
OnRow(b, side, row) == {col \in Cols : get_piece(b, row, col) = side}

\* C34: in every state reached from the initial position by make_move in which
\* the game is not over, no WHITE piece stands on row 0 and no BLACK piece on
\* row 7.
C34_NoPieceOnGoalRow ==
    (pc = "play" /\ ~game_over) =>
        /\ OnRow(board, WHITE, 0) = {}
        /\ OnRow(board, BLACK, BOARD_SIZE - 1) = {}

\* A game from the initial position is in progress after ten moves or more,
\* with a piece one row from its goal row.
C34_Witness ==
    /\ pc = "play"
    /\ ~game_over
    /\ Len(move_history) >= 10
    /\ \/ OnRow(board, WHITE, 1) # {}
       \/ OnRow(board, BLACK, BOARD_SIZE - 2) # {}


\* The piece on the square the call's move ends on, before the call.
Target == get_piece(board, last_call'.move.to_pos[1], last_call'.move.to_pos[2])

\* C35: pieces are conserved.  An accepted make_move leaves the mover's number
\* of pieces as it was and lowers the opponent's by one if the destination
\* held an opponent piece, by none otherwise; a rejected make_move changes no
\* count.  So in a game from the initial position a side never has more than
\* 16 pieces, the total never goes up, and no move removes a piece of the
\* side that made it.
C35_PieceConservation ==
    /\ [][Playing /\ MakeMoveStep =>
            /\ Accepted =>
                 /\ Mover = current_player
                 /\ PieceCount(board', Mover) = PieceCount(board, Mover)
                 /\ PieceCount(board', Opponent(Mover)) =
                       PieceCount(board, Opponent(Mover))
                          - (IF Target = Opponent(Mover) THEN 1 ELSE 0)
                 /\ Target # Mover
            /\ Rejected =>
                 /\ PieceCount(board', WHITE) = PieceCount(board, WHITE)
                 /\ PieceCount(board', BLACK) = PieceCount(board, BLACK)
            /\ PieceCount(board', WHITE) + PieceCount(board', BLACK)
                  <= PieceCount(board, WHITE) + PieceCount(board, BLACK)]_vars
    /\ [](pc \in {"play", "ended"} =>
            /\ PieceCount(board, WHITE) <= 2 * BOARD_SIZE
            /\ PieceCount(board, BLACK) <= 2 * BOARD_SIZE)

\* A capture has just been made in a game from the initial position: the side
\* that moved has its sixteen pieces, the other side has fewer.
C35_Witness ==
    /\ pc = "play"
    /\ Returned(TRUE)
    /\ move_history[Len(move_history)].is_capture
    /\ PieceCount(board, Opponent(current_player)) = 2 * BOARD_SIZE
    /\ PieceCount(board, current_player) < 2 * BOARD_SIZE


\* C36: every move in move_history carries the right capture flag.  The entry
\* an accepted make_move appends has is_capture True iff the move took an
\* opponent piece off its destination, whatever is_capture the caller's Move
\* was built with; the entries before it stay as they were.
C36_HistoryFlagsCaptures ==
    [][Accepted =>
         /\ Len(move_history') = Len(move_history) + 1
         /\ SubSeq(move_history', 1, Len(move_history)) = move_history
         /\ move_history'[Len(move_history')].is_capture
               <=> (Target = Opponent(Mover))]_vars

----------------------------------------------------------------------------
(* run() called again on the same Tournament *)

\* Bound: the number of calls of run() on one Tournament.
MaxRuns == 2

\* run() called on a Tournament whose run() has returned, up to the head of
\* its for loop: total_duration is a local set to 0 by every call, results is
\* the list built by __init__ and is left as the calls before filled it.
Rerun ==
    /\ pc = "done"
    /\ Len(results) < MaxRuns * num_games
    /\ total_duration' = 0
    /\ game_num' = 1
    /\ pc' = "loop"
    /\ UNCHANGED <<game, last_call, objects, player1, player2, num_games,
                   results, picks, moves, move_count, board_history, stats>>

\* Both agents do what RandomPlayer does, in every call of run().
NextRerun ==
    \/ NextRandom
    \/ Rerun

SpecRerun == InitCLI /\ [][NextRerun]_vars

\* The sum of duration_seconds over a list of results.
SumDurations(rs) ==
    LET sum[k \in 0..Len(rs)] ==
            IF k = 0 THEN 0 ELSE sum[k - 1] + rs[k].duration_seconds
    IN sum[Len(rs)]

====
